---- MODULE Spec2Model ----
(***************************************************************************)
(* The bar-by-bar backtest engine of the multi-timeframe EMA crossover     *)
(* strategy (backtesting.py, technical_indicators.py).                     *)
(*                                                                         *)
(* Prices, capital and P&L are exact integers.  Every close of the input   *)
(* candles is a multiple of 100 and risk_percent is a whole number, so     *)
(* entry_price * risk_percent / 100 is exact and \div loses nothing.       *)
(* Rows of the lower series are read one per step; a row is an input of    *)
(* the step that reads it.                                                 *)
(***************************************************************************)
EXTENDS Integers, Sequences, FiniteSets, TLC

VARIABLES
    caller,           \* "backtest_strategy": called on its own;
                      \* "run_multi_timeframe_backtest": called from Strategy.py
    quantstats,       \* "installed" or "missing": can `import quantstats` succeed
    lower_has_nan,    \* whether the lower frame holds NaN (missing) values
    csv_columns,      \* the columns of the CSV file, besides timestamp
    higher_tf_data,   \* the higher-timeframe candles (read-only input)
    initial_capital,  \* parameter initial_capital
    lot_size,         \* parameter lot_size
    lower_tf_data,    \* the lower-timeframe rows read so far (iloc[0..i])
    i,                \* loop index: iloc position of the last row read
    pc,               \* where the run is: "start", "load", "call", "loop", or an end:
                      \* "done" (backtest_strategy returned at line 206),
                      \* "missing_data" (it returned at line 21),
                      \* "exit_none" (Strategy.py line 41), "returned" (line 66),
                      \* "ImportError" (importing Reports raised)
    position,         \* "None", "Long" or "Short"
    entry_price,
    stop_loss,
    take_profit,
    capital,
    trades,           \* list of trade dicts
    portfolio_value,  \* list
    dates,            \* list
    positions_size,   \* list
    signal_counts,    \* {'Long': n, 'Short': m}
    returns_df,       \* per row: <<numerator, denominator>> of 'return'
    trade_made,       \* local of the last loop body that got past the try
    pnl,              \* local of the last loop body that got past the try
    rule,             \* which branch of the if/elif chain the last body took
    equity_curve,     \* the returned equity curve (after return)
    trades_df,        \* the returned trade ledger (after return)
    trades_df_columns, \* the columns of the returned trade ledger
    metrics           \* <<>> for None, <<dict>> for the report's metrics

\* The inputs of a run: they never change.
inputs == <<caller, quantstats, lower_has_nan, csv_columns, higher_tf_data,
            initial_capital, lot_size>>

vars == <<caller, quantstats, lower_has_nan, csv_columns, higher_tf_data, initial_capital,
          lot_size, lower_tf_data, i, pc, position, entry_price,
          stop_loss, take_profit, capital, trades, portfolio_value, dates,
          positions_size, signal_counts, returns_df, trade_made, pnl, rule,
          equity_curve, trades_df, trades_df_columns, metrics>>

(***************************************************************************)
(* Bounds and parameters                                                   *)
(***************************************************************************)
\* Largest iloc index of the lower series (the loop body runs at most MaxBars times).
MaxBars == 3

risk_percent == 1
risk_reward_ratio == 2

LotSizes == {1, 2}

\* (low, close, high) of the candles a lower-timeframe row may carry.
Candles == { <<98, 100, 103>>, <<200, 200, 200>> }

\* (EMA_Short, EMA_Long) of a row: below, equal, above.
EMAPairs == { <<100, 101>>, <<100, 100>>, <<101, 100>> }

\* Timestamps at which the higher series may hold a candle.
HigherTimes == {0, 2}

\* data_loader.py line 35
RequiredColumns == {"open", "high", "low", "close", "volume"}

PriceFields == {"high", "low", "close"}
EMAFields == {"EMA_Short", "EMA_Long"}

\* A row whose fields all convert with float().
GoodRow(t, c, e) ==
    [ts |-> t, low |-> c[1], close |-> c[2], high |-> c[3],
     EMA_Short |-> e[1], EMA_Long |-> e[2], nonnumeric |-> {}, nan |-> {}]

\* A row with one field f that float() rejects (ValueError/TypeError); the
\* other fields are numeric.  The 0 stands for the rejected value and is never read.
BadRow(t, f) ==
    [GoodRow(t, <<98, 100, 103>>, <<100, 100>>) EXCEPT ![f] = 0, !.nonnumeric = {f}]

\* A row whose field f is NaN, the float that marks a missing value: float()
\* accepts it and every comparison with it is False.  The 0 stands for the NaN.
NaNRow(t, f) ==
    [GoodRow(t, <<98, 100, 103>>, <<100, 100>>) EXCEPT ![f] = 0, !.nan = {f}]

\* The rows the lower series may hold at timestamp t.
Rows(t) ==
    { GoodRow(t, c, e) : c \in Candles, e \in EMAPairs }
    \cup { BadRow(t, f) : f \in {"close", "EMA_Short"} }
    \cup (IF lower_has_nan THEN { NaNRow(t, "EMA_Short") } ELSE {})

\* Row 0 of the lower series.  calculate_emas seeds both EMAs with the first
\* close (ewm(adjust=False)), so a numeric row 0 has EMA_Short = EMA_Long; only
\* its EMA columns are ever read (as prev_row of bar 1).
FirstRows ==
    { GoodRow(0, c, <<100, 100>>) : c \in {<<200, 200, 200>>} }
    \cup { BadRow(0, "EMA_Short") }

HigherCandles ==
    { [ts |-> t, EMA_Short |-> e[1], EMA_Long |-> e[2]] :
        t \in HigherTimes, e \in EMAPairs }

\* Non-empty higher series, timestamps strictly increasing.
HigherSeries ==
    UNION { { h \in [1..k -> HigherCandles] :
                \A a, b \in 1..k : a < b => h[a].ts < h[b].ts } :
            k \in 1..Cardinality(HigherTimes) }

(***************************************************************************)
(* technical_indicators.determine_trend                                    *)
(***************************************************************************)
\* Faulty variant: only candles strictly before the timestamp are looked at.
determine_trend_Strict(higher, timestamp) ==
    LET lt(c) == c.ts < timestamp
        prev_candles == SelectSeq(higher, lt)
    IN  IF prev_candles = <<>> THEN "Neutral"
        ELSE LET latest_candle == prev_candles[Len(prev_candles)]
             IN  IF latest_candle.EMA_Short > latest_candle.EMA_Long THEN "Bullish"
                 ELSE IF latest_candle.EMA_Short < latest_candle.EMA_Long THEN "Bearish"
                 ELSE "Neutral"

determine_trend(higher, timestamp) ==
    LET lte(c) == c.ts <= timestamp
        prev_candles == SelectSeq(higher, lte)
    IN  IF prev_candles = <<>> THEN "Neutral"
        ELSE LET latest_candle == prev_candles[Len(prev_candles)]
             IN  IF latest_candle.EMA_Short > latest_candle.EMA_Long THEN "Bullish"
                 ELSE IF latest_candle.EMA_Short < latest_candle.EMA_Long THEN "Bearish"
                 ELSE "Neutral"

(***************************************************************************)
(* backtesting.backtest_strategy: the pieces of the loop body              *)
(***************************************************************************)
\* Faulty variant: the previous row's EMAs are not converted inside the try.
Convertible_NoPrev(row, prev_row) ==
    row.nonnumeric = {}

\* try: float(...) of the seven values; False when one raises.
Convertible(row, prev_row) ==
    /\ row.nonnumeric \cap (PriceFields \cup EMAFields) = {}
    /\ prev_row.nonnumeric \cap EMAFields = {}

\* Faulty variant: the previous bar must be strictly below (equal EMAs no longer cross).
LongSignal_Strict(row, prev_row, current_trend) ==
    /\ (prev_row.nan \cup row.nan) \cap EMAFields = {}
    /\ prev_row.EMA_Short < prev_row.EMA_Long
    /\ row.EMA_Short > row.EMA_Long
    /\ current_trend = "Bullish"

\* Faulty variant: EMA_Short touching EMA_Long already counts as a crossing.
LongSignal_Weak(row, prev_row, current_trend) ==
    /\ (prev_row.nan \cup row.nan) \cap EMAFields = {}
    /\ prev_row.EMA_Short <= prev_row.EMA_Long
    /\ row.EMA_Short >= row.EMA_Long
    /\ current_trend = "Bullish"

\* A comparison with NaN is False, so no signal fires when an EMA of either
\* row is NaN.
LongSignal(row, prev_row, current_trend) ==
    /\ (prev_row.nan \cup row.nan) \cap EMAFields = {}
    /\ prev_row.EMA_Short <= prev_row.EMA_Long
    /\ row.EMA_Short > row.EMA_Long
    /\ current_trend = "Bullish"

ShortSignal(row, prev_row, current_trend) ==
    /\ (prev_row.nan \cup row.nan) \cap EMAFields = {}
    /\ prev_row.EMA_Short >= prev_row.EMA_Long
    /\ row.EMA_Short < row.EMA_Long
    /\ current_trend = "Bearish"

\* Faulty variant: a position leaves whenever the trend is not on its side.
TrendExit_Unaligned(pos, current_trend) ==
    \/ (pos = "Long" /\ current_trend # "Bullish")
    \/ (pos = "Short" /\ current_trend # "Bearish")

TrendExit(pos, current_trend) ==
    \/ (pos = "Long" /\ current_trend = "Bearish")
    \/ (pos = "Short" /\ current_trend = "Bullish")

\* Faulty variant: a touched stop or target is handled before the trend-reversal exit.
Rule_StopFirst(pos, row, prev_row, current_trend) ==
    IF LongSignal(row, prev_row, current_trend) THEN "LongEntry"
    ELSE IF ShortSignal(row, prev_row, current_trend) THEN "ShortEntry"
    ELSE IF pos = "Long" /\ (row.low <= stop_loss \/ row.high >= take_profit)
         THEN "LongStopTake"
    ELSE IF pos = "Short" /\ (row.high >= stop_loss \/ row.low <= take_profit)
         THEN "ShortStopTake"
    ELSE IF TrendExit(pos, current_trend) THEN "TrendExit"
    ELSE IF pos = "Long" THEN "LongStopTake"
    ELSE IF pos = "Short" THEN "ShortStopTake"
    ELSE "NoBranch"

\* The if/elif chain: the first branch whose condition holds.
Rule(pos, row, prev_row, current_trend) ==
    IF LongSignal(row, prev_row, current_trend) THEN "LongEntry"
    ELSE IF ShortSignal(row, prev_row, current_trend) THEN "ShortEntry"
    ELSE IF TrendExit(pos, current_trend) THEN "TrendExit"
    ELSE IF pos = "Long" THEN "LongStopTake"
    ELSE IF pos = "Short" THEN "ShortStopTake"
    ELSE "NoBranch"

\* Faulty variant: the Long formula is used for every position.
PnL_LongOnly(pos, entry, exit, size) == (exit - entry) * size

PnL(pos, entry, exit, size) ==
    IF pos = "Long" THEN (exit - entry) * size ELSE (entry - exit) * size

TradeColumns == {"Entry", "Exit", "Type", "PL", "Date", "Reason", "Size"}

Trade(entry, exit, type, p, date, reason, size) ==
    [Entry |-> entry, Exit |-> exit, Type |-> type, PL |-> p,
     Date |-> date, Reason |-> reason, Size |-> size]

\* Lines 90-91 and 117-118, for any risk percentage rp and reward ratio rr.
\* Faulty variant: the Long's stop is put above the entry.
LongStopLossAt_Above(entry, rp) == entry + (entry * rp) \div 100

LongStopLossAt(entry, rp) == entry - (entry * rp) \div 100
LongTakeProfitAt(entry, stop, rr) == entry + (entry - stop) * rr
ShortStopLossAt(entry, rp) == entry + (entry * rp) \div 100
ShortTakeProfitAt(entry, stop, rr) == entry - (stop - entry) * rr

\* The same with the run's risk_percent and risk_reward_ratio.
LongStopLoss(entry) == LongStopLossAt(entry, risk_percent)
LongTakeProfit(entry, stop) == LongTakeProfitAt(entry, stop, risk_reward_ratio)
ShortStopLoss(entry) == ShortStopLossAt(entry, risk_percent)
ShortTakeProfit(entry, stop) == ShortTakeProfitAt(entry, stop, risk_reward_ratio)

LongHit(row, stop, take) == row.low <= stop \/ row.high >= take

\* Faulty variant: the target is looked at before the stop.
LongExitPrice_TakeFirst(row, stop, take) == IF row.high >= take THEN take ELSE stop

LongExitPrice(row, stop, take) == IF row.low <= stop THEN stop ELSE take

\* Faulty variant: the target is looked at before the stop.
LongExitReason_TakeFirst(row, stop, take) ==
    IF row.high >= take THEN "Take Profit" ELSE "Stop Loss"

LongExitReason(row, stop, take) ==
    IF row.low <= stop THEN "Stop Loss" ELSE "Take Profit"

ShortHit(row, stop, take) == row.high >= stop \/ row.low <= take
\* Faulty variant: on a bar touching both levels the Short leaves at the target.
ShortExitPrice_TakeFirst(row, stop, take) == IF row.low <= take THEN take ELSE stop

ShortExitPrice(row, stop, take) == IF row.high >= stop THEN stop ELSE take
ShortExitReason(row, stop, take) ==
    IF row.high >= stop THEN "Stop Loss" ELSE "Take Profit"

\* Faulty variant: the division is not guarded against a zero denominator.
Return_Unguarded(p, cap) == <<p, cap - p>>

\* pnl / (capital - pnl) if (capital - pnl) != 0 else 0, as numerator and denominator.
Return(p, cap) == IF cap - p # 0 THEN <<p, cap - p>> ELSE <<0, 1>>

PrevRow == lower_tf_data[Len(lower_tf_data)]

\* row = lower_tf_data.iloc[i]; prev_row = lower_tf_data.iloc[i-1]
ReadRow(row) ==
    /\ pc = "loop"
    /\ i < MaxBars
    /\ row \in Rows(i + 1)
    /\ i' = i + 1
    /\ lower_tf_data' = Append(lower_tf_data, row)
    /\ UNCHANGED <<inputs, pc, equity_curve, trades_df, trades_df_columns, metrics>>

\* The branch the body takes on this row, or "Skip" when the try fails.
Branch(row) ==
    IF ~Convertible(row, PrevRow) THEN "Skip"
    ELSE Rule(position, row, PrevRow, determine_trend(higher_tf_data, row.ts))

\* Faulty variant: the equity point carries the capital from before this bar's P&L.
Record_StaleCapital(row, cap, pos, made, p) ==
    /\ portfolio_value' = Append(portfolio_value, capital)
    /\ dates' = Append(dates, row.ts)
    /\ positions_size' = Append(positions_size, IF pos # "None" THEN lot_size ELSE 0)
    /\ returns_df' = Append(returns_df, IF made THEN Return(p, cap) ELSE <<0, 1>>)

\* Lines 179-186: the end of a loop body that was not skipped.
Record(row, cap, pos, made, p) ==
    /\ portfolio_value' = Append(portfolio_value, cap)
    /\ dates' = Append(dates, row.ts)
    /\ positions_size' = Append(positions_size, IF pos # "None" THEN lot_size ELSE 0)
    /\ returns_df' = Append(returns_df, IF made THEN Return(p, cap) ELSE <<0, 1>>)

\* Faulty variant: an entry signal opens the new position without closing the open one.
CloseOnSignal_Forget(row) ==
    /\ pnl' = 0
    /\ capital' = capital
    /\ trades' = trades
    /\ trade_made' = FALSE

\* Faulty variant: an entry signal closes the open position only when it is of the
\* opposing direction.
CloseOnSignal_OppositeOnly(row) ==
    IF position # "None"
       /\ position # (IF Branch(row) = "LongEntry" THEN "Long" ELSE "Short")
    THEN /\ pnl' = PnL(position, entry_price, row.close, lot_size)
         /\ capital' = capital + pnl'
         /\ trades' = Append(trades,
                Trade(entry_price, row.close, position, pnl', row.ts,
                      "New Signal", lot_size))
         /\ trade_made' = TRUE
    ELSE /\ pnl' = 0
         /\ capital' = capital
         /\ trades' = trades
         /\ trade_made' = FALSE

\* if position: ... trades.append(...) of the two entry branches.
CloseOnSignal(row) ==
    IF position # "None"
    THEN /\ pnl' = PnL(position, entry_price, row.close, lot_size)
         /\ capital' = capital + pnl'
         /\ trades' = Append(trades,
                Trade(entry_price, row.close, position, pnl', row.ts,
                      "New Signal", lot_size))
         /\ trade_made' = TRUE
    ELSE /\ pnl' = 0
         /\ capital' = capital
         /\ trades' = trades
         /\ trade_made' = FALSE

(***************************************************************************)
(* The loop body, one action per outcome                                   *)
(***************************************************************************)
\* Faulty variant: a skipped bar still appends an equity point.
SkipBar_Records ==
    \E row \in Rows(i + 1) :
    /\ ReadRow(row)
    /\ Branch(row) = "Skip"
    /\ rule' = "Skip"
    /\ portfolio_value' = Append(portfolio_value, capital)
    /\ dates' = Append(dates, row.ts)
    /\ positions_size' = Append(positions_size,
                                IF position # "None" THEN lot_size ELSE 0)
    /\ returns_df' = Append(returns_df, <<0, 1>>)
    /\ UNCHANGED <<position, entry_price, stop_loss, take_profit, capital, trades,
                   signal_counts, trade_made, pnl>>

\* except (ValueError, TypeError): continue
SkipBar ==
    \E row \in Rows(i + 1) :
    /\ ReadRow(row)
    /\ Branch(row) = "Skip"
    /\ rule' = "Skip"
    /\ returns_df' = Append(returns_df, <<0, 1>>)
    /\ UNCHANGED <<position, entry_price, stop_loss, take_profit, capital, trades,
                   portfolio_value, dates, positions_size, signal_counts,
                   trade_made, pnl>>

\* Faulty variant: a long signal is counted only when it opens from flat.
LongEntry_CountNew ==
    \E row \in Rows(i + 1) :
    /\ ReadRow(row)
    /\ Branch(row) = "LongEntry"
    /\ rule' = "LongEntry"
    /\ signal_counts' = IF position = "None"
                        THEN [signal_counts EXCEPT !.Long = @ + 1]
                        ELSE signal_counts
    /\ CloseOnSignal(row)
    /\ position' = "Long"
    /\ entry_price' = row.close
    /\ stop_loss' = LongStopLoss(entry_price')
    /\ take_profit' = LongTakeProfit(entry_price', stop_loss')
    /\ Record(row, capital', position', trade_made', pnl')

\* Faulty variant: a long signal on an open Long keeps the old entry and levels.
LongEntry_KeepLevels ==
    \E row \in Rows(i + 1) :
    /\ ReadRow(row)
    /\ Branch(row) = "LongEntry"
    /\ rule' = "LongEntry"
    /\ signal_counts' = [signal_counts EXCEPT !.Long = @ + 1]
    /\ CloseOnSignal(row)
    /\ position' = "Long"
    /\ entry_price' = IF position = "Long" THEN entry_price ELSE row.close
    /\ stop_loss' = LongStopLoss(entry_price')
    /\ take_profit' = LongTakeProfit(entry_price', stop_loss')
    /\ Record(row, capital', position', trade_made', pnl')

LongEntry ==
    \E row \in Rows(i + 1) :
    /\ ReadRow(row)
    /\ Branch(row) = "LongEntry"
    /\ rule' = "LongEntry"
    /\ signal_counts' = [signal_counts EXCEPT !.Long = @ + 1]
    /\ CloseOnSignal(row)
    /\ position' = "Long"
    /\ entry_price' = row.close
    /\ stop_loss' = LongStopLoss(entry_price')
    /\ take_profit' = LongTakeProfit(entry_price', stop_loss')
    /\ Record(row, capital', position', trade_made', pnl')

\* Faulty variant: a short signal is acted on without being counted.
ShortEntry_NoCount ==
    \E row \in Rows(i + 1) :
    /\ ReadRow(row)
    /\ Branch(row) = "ShortEntry"
    /\ rule' = "ShortEntry"
    /\ signal_counts' = signal_counts
    /\ CloseOnSignal(row)
    /\ position' = "Short"
    /\ entry_price' = row.close
    /\ stop_loss' = ShortStopLoss(entry_price')
    /\ take_profit' = ShortTakeProfit(entry_price', stop_loss')
    /\ Record(row, capital', position', trade_made', pnl')

ShortEntry ==
    \E row \in Rows(i + 1) :
    /\ ReadRow(row)
    /\ Branch(row) = "ShortEntry"
    /\ rule' = "ShortEntry"
    /\ signal_counts' = [signal_counts EXCEPT !.Short = @ + 1]
    /\ CloseOnSignal(row)
    /\ position' = "Short"
    /\ entry_price' = row.close
    /\ stop_loss' = ShortStopLoss(entry_price')
    /\ take_profit' = ShortTakeProfit(entry_price', stop_loss')
    /\ Record(row, capital', position', trade_made', pnl')

\* Faulty variant: the trend-reversal exit also opens a position in the trend's direction.
TrendChangeExit_Reverse ==
    \E row \in Rows(i + 1) :
    /\ ReadRow(row)
    /\ Branch(row) = "TrendExit"
    /\ rule' = "TrendExit"
    /\ pnl' = PnL(position, entry_price, row.close, lot_size)
    /\ capital' = capital + pnl'
    /\ trades' = Append(trades,
           Trade(entry_price, row.close, position, pnl', row.ts,
                 "Trend Change", lot_size))
    /\ position' = (IF position = "Long" THEN "Short" ELSE "Long")
    /\ entry_price' = row.close
    /\ trade_made' = TRUE
    /\ UNCHANGED <<stop_loss, take_profit, signal_counts>>
    /\ Record(row, capital', position', trade_made', pnl')

TrendChangeExit ==
    \E row \in Rows(i + 1) :
    /\ ReadRow(row)
    /\ Branch(row) = "TrendExit"
    /\ rule' = "TrendExit"
    /\ pnl' = PnL(position, entry_price, row.close, lot_size)
    /\ capital' = capital + pnl'
    /\ trades' = Append(trades,
           Trade(entry_price, row.close, position, pnl', row.ts,
                 "Trend Change", lot_size))
    /\ position' = "None"
    /\ trade_made' = TRUE
    /\ UNCHANGED <<entry_price, stop_loss, take_profit, signal_counts>>
    /\ Record(row, capital', position', trade_made', pnl')

LongStopTake ==
    \E row \in Rows(i + 1) :
    /\ ReadRow(row)
    /\ Branch(row) = "LongStopTake"
    /\ rule' = "LongStopTake"
    /\ IF LongHit(row, stop_loss, take_profit)
       THEN /\ pnl' = (LongExitPrice(row, stop_loss, take_profit) - entry_price) * lot_size
            /\ capital' = capital + pnl'
            /\ trades' = Append(trades,
                   Trade(entry_price, LongExitPrice(row, stop_loss, take_profit),
                         "Long", pnl', row.ts,
                         LongExitReason(row, stop_loss, take_profit), lot_size))
            /\ position' = "None"
            /\ trade_made' = TRUE
       ELSE /\ pnl' = 0
            /\ trade_made' = FALSE
            /\ UNCHANGED <<capital, trades, position>>
    /\ UNCHANGED <<entry_price, stop_loss, take_profit, signal_counts>>
    /\ Record(row, capital', position', trade_made', pnl')

\* Faulty variant: the closing trade is put at the head of the ledger.
ShortStopTake_Prepend ==
    \E row \in Rows(i + 1) :
    /\ ReadRow(row)
    /\ Branch(row) = "ShortStopTake"
    /\ rule' = "ShortStopTake"
    /\ IF ShortHit(row, stop_loss, take_profit)
       THEN /\ pnl' = (entry_price - ShortExitPrice(row, stop_loss, take_profit)) * lot_size
            /\ capital' = capital + pnl'
            /\ trades' = << Trade(entry_price, ShortExitPrice(row, stop_loss, take_profit),
                                  "Short", pnl', row.ts,
                                  ShortExitReason(row, stop_loss, take_profit), lot_size) >>
                          \o trades
            /\ position' = "None"
            /\ trade_made' = TRUE
       ELSE /\ pnl' = 0
            /\ trade_made' = FALSE
            /\ UNCHANGED <<capital, trades, position>>
    /\ UNCHANGED <<entry_price, stop_loss, take_profit, signal_counts>>
    /\ Record(row, capital', position', trade_made', pnl')

ShortStopTake ==
    \E row \in Rows(i + 1) :
    /\ ReadRow(row)
    /\ Branch(row) = "ShortStopTake"
    /\ rule' = "ShortStopTake"
    /\ IF ShortHit(row, stop_loss, take_profit)
       THEN /\ pnl' = (entry_price - ShortExitPrice(row, stop_loss, take_profit)) * lot_size
            /\ capital' = capital + pnl'
            /\ trades' = Append(trades,
                   Trade(entry_price, ShortExitPrice(row, stop_loss, take_profit),
                         "Short", pnl', row.ts,
                         ShortExitReason(row, stop_loss, take_profit), lot_size))
            /\ position' = "None"
            /\ trade_made' = TRUE
       ELSE /\ pnl' = 0
            /\ trade_made' = FALSE
            /\ UNCHANGED <<capital, trades, position>>
    /\ UNCHANGED <<entry_price, stop_loss, take_profit, signal_counts>>
    /\ Record(row, capital', position', trade_made', pnl')

\* No branch of the chain matches: no position and no signal.
NoBranch ==
    \E row \in Rows(i + 1) :
    /\ ReadRow(row)
    /\ Branch(row) = "NoBranch"
    /\ rule' = "NoBranch"
    /\ pnl' = 0
    /\ trade_made' = FALSE
    /\ UNCHANGED <<position, entry_price, stop_loss, take_profit, capital, trades,
                   signal_counts>>
    /\ Record(row, capital', position', trade_made', pnl')

EquityPoint(k) ==
    [date |-> dates[k], portfolio_value |-> portfolio_value[k],
     position_size |-> positions_size[k]]

\* Faulty variant: a position still open after the last bar is closed at the
\* last close.
Return_ForceClose ==
    /\ pc = "loop"
    /\ pc' = "done"
    /\ IF position # "None"
       THEN LET last == lower_tf_data[Len(lower_tf_data)]
                p == PnL(position, entry_price, last.close, lot_size)
            IN  /\ trades' = Append(trades,
                       Trade(entry_price, last.close, position, p, last.ts,
                             "End of Data", lot_size))
                /\ capital' = capital + p
                /\ position' = "None"
       ELSE UNCHANGED <<trades, capital, position>>
    /\ equity_curve' = [points |-> [k \in 1..Len(dates) |-> EquityPoint(k)],
                        signal_counts |-> signal_counts]
    /\ trades_df' = trades'
    /\ trades_df_columns' = TradeColumns
    /\ UNCHANGED <<inputs, lower_tf_data, i, entry_price,
                   stop_loss, take_profit, portfolio_value, dates,
                   positions_size, signal_counts, returns_df, trade_made, pnl, rule,
                   metrics>>

\* Lines 188-206: the loop is over (the series has i + 1 rows); build the results.
Return_ ==
    /\ pc = "loop"
    /\ pc' = "done"
    /\ equity_curve' = [points |-> [k \in 1..Len(dates) |-> EquityPoint(k)],
                        signal_counts |-> signal_counts]
    /\ trades_df' = trades
    /\ trades_df_columns' = TradeColumns
    /\ UNCHANGED <<inputs, lower_tf_data, i, position, entry_price,
                   stop_loss, take_profit, capital, trades, portfolio_value, dates,
                   positions_size, signal_counts, returns_df, trade_made, pnl, rule,
                   metrics>>

\* Lines 23-40: the state before the loop, on non-empty inputs.
Init ==
    /\ caller = "backtest_strategy"
    /\ quantstats = "installed"
    /\ lower_has_nan = FALSE
    /\ csv_columns = RequiredColumns
    /\ higher_tf_data \in HigherSeries
    /\ initial_capital = 500
    /\ lot_size \in LotSizes
    /\ lower_tf_data \in { <<r>> : r \in FirstRows }
    /\ i = 0
    /\ pc = "loop"
    /\ position = "None"
    /\ entry_price = 0
    /\ stop_loss = 0
    /\ take_profit = 0
    /\ capital = initial_capital
    /\ trades = <<>>
    /\ portfolio_value = <<initial_capital>>
    /\ dates = <<0>>
    /\ positions_size = <<0>>
    /\ signal_counts = [Long |-> 0, Short |-> 0]
    /\ returns_df = << <<0, 1>> >>
    /\ trade_made = FALSE
    /\ pnl = 0
    /\ rule = "Start"
    /\ equity_curve = [points |-> <<>>, signal_counts |-> [Long |-> 0, Short |-> 0]]
    /\ trades_df = <<>>
    /\ trades_df_columns = {}
    /\ metrics = <<>>

Next ==
    \/ SkipBar
    \/ LongEntry
    \/ ShortEntry
    \/ TrendChangeExit
    \/ LongStopTake
    \/ ShortStopTake
    \/ NoBranch
    \/ Return_

Spec == Init /\ [][Next]_vars

(***************************************************************************)
(* The whole run: Strategy.run_multi_timeframe_backtest, which imports     *)
(* Reports, checks the loaded frames, calls backtest_strategy and reports, *)
(* and backtest_strategy called on its own with any two frames.            *)
(* lower_tf_data and higher_tf_data are the frames handed to               *)
(* backtest_strategy (for run_multi_timeframe_backtest: after line 45).    *)
(***************************************************************************)
\* Higher series of the whole-run specification: none, or candles with a trend.
HigherRun ==
    { <<>> } \cup
    { h \in HigherSeries : \A k \in 1..Len(h) : h[k].EMA_Short # h[k].EMA_Long }

\* Reports.py lines 5-13: the module-level flag, once the module is imported.
QUANTSTATS_AVAILABLE == quantstats = "installed"

\* Strategy.py line 4 runs Reports.py lines 1-13: line 5 imports quantstats
\* outside any try, lines 8-13 import it again inside one.
ImportReports ==
    /\ pc = "start"
    /\ caller = "run_multi_timeframe_backtest"
    /\ pc' = IF quantstats = "installed" THEN "load" ELSE "ImportError"
    /\ UNCHANGED <<inputs, lower_tf_data, i, position, entry_price, stop_loss,
                   take_profit, capital, trades, portfolio_value, dates,
                   positions_size, signal_counts, returns_df, trade_made, pnl, rule,
                   equity_curve, trades_df, trades_df_columns, metrics>>

\* Faulty variant: the columns are not checked.
load_and_prepare_data_NoCheck(columns, lower, higher) == <<lower, higher>>

\* data_loader.py lines 34-38 and 67-70: a missing required column raises
\* ValueError, which the except turns into two empty frames; otherwise the two
\* resampled frames are returned.
load_and_prepare_data(columns, lower, higher) ==
    IF ~(RequiredColumns \subseteq columns) THEN << <<>>, <<>> >>
    ELSE <<lower, higher>>

\* Strategy.py lines 37-41: load, and return None, None, None, None on an
\* empty frame.
LoadCheck ==
    /\ pc = "load"
    /\ LET loaded == load_and_prepare_data(csv_columns, lower_tf_data, higher_tf_data)
       IN  pc' = IF loaded[1] = <<>> \/ loaded[2] = <<>>
                 THEN "exit_none" ELSE "call"
    /\ UNCHANGED <<inputs, lower_tf_data, i, position, entry_price, stop_loss,
                   take_profit, capital, trades, portfolio_value, dates,
                   positions_size, signal_counts, returns_df, trade_made, pnl, rule,
                   equity_curve, trades_df, trades_df_columns, metrics>>

\* Faulty variant: only the lower frame is checked for emptiness.
EnterBacktest_LowerOnly ==
    /\ \/ pc = "start" /\ caller = "backtest_strategy"
       \/ pc = "call"
    /\ IF lower_tf_data = <<>>
       THEN /\ pc' = "missing_data"
            /\ UNCHANGED <<portfolio_value, dates, positions_size, returns_df>>
       ELSE /\ pc' = "loop"
            /\ portfolio_value' = <<initial_capital>>
            /\ dates' = <<lower_tf_data[1].ts>>
            /\ positions_size' = <<0>>
            /\ returns_df' = << <<0, 1>> >>
    /\ UNCHANGED <<inputs, lower_tf_data, i, position, entry_price, stop_loss,
                   take_profit, capital, trades, signal_counts, trade_made, pnl,
                   rule, equity_curve, trades_df, trades_df_columns, metrics>>

\* backtesting.py lines 19-40: three empty frames on an empty input, else the
\* state before the loop.
EnterBacktest ==
    /\ \/ pc = "start" /\ caller = "backtest_strategy"
       \/ pc = "call"
    /\ IF lower_tf_data = <<>> \/ higher_tf_data = <<>>
       THEN /\ pc' = "missing_data"
            /\ UNCHANGED <<portfolio_value, dates, positions_size, returns_df>>
       ELSE /\ pc' = "loop"
            /\ portfolio_value' = <<initial_capital>>
            /\ dates' = <<lower_tf_data[1].ts>>
            /\ positions_size' = <<0>>
            /\ returns_df' = << <<0, 1>> >>
    /\ UNCHANGED <<inputs, lower_tf_data, i, position, entry_price, stop_loss,
                   take_profit, capital, trades, signal_counts, trade_made, pnl,
                   rule, equity_curve, trades_df, trades_df_columns, metrics>>

(***************************************************************************)
(* Reports.generate_detailed_report.  Ratios are kept as <<numerator,      *)
(* denominator>>; float('inf') is <<>>.                                    *)
(***************************************************************************)
RECURSIVE SumPL(_)
SumPL(ts) == IF ts = <<>> THEN 0 ELSE ts[1].PL + SumPL(Tail(ts))

IsWin(tr) == tr.PL > 0
IsLoss(tr) == tr.PL <= 0

\* Lines 139-151: the scan for the longest run of wins and of losses.
RECURSIVE StreakScan(_, _, _, _, _)
StreakScan(ts, win_streak, loss_streak, max_win_streak, max_loss_streak) ==
    IF ts = <<>> THEN <<max_win_streak, max_loss_streak>>
    ELSE IF IsWin(ts[1])
         THEN StreakScan(Tail(ts), win_streak + 1, 0,
                         IF win_streak + 1 > max_win_streak
                         THEN win_streak + 1 ELSE max_win_streak,
                         max_loss_streak)
         ELSE StreakScan(Tail(ts), 0, loss_streak + 1, max_win_streak,
                         IF loss_streak + 1 > max_loss_streak
                         THEN loss_streak + 1 ELSE max_loss_streak)

\* Line 157: trades['Reason'].value_counts().to_dict()
ExitReasons(ts) ==
    [r \in { ts[n].Reason : n \in 1..Len(ts) } |->
        Cardinality({ n \in 1..Len(ts) : ts[n].Reason = r })]

\* portfolio_value.cummax() at point k
CumMax(points, k) ==
    LET vals == { points[m].portfolio_value : m \in 1..k }
    IN  CHOOSE v \in vals : \A w \in vals : w <= v

\* Lines 87-89: the columns drawdown and drawdown_pct are added to equity_curve.
WithDrawdown(ec) ==
    [ec EXCEPT !.points =
        [k \in 1..Len(ec.points) |->
            LET pt == ec.points[k]
                dd == CumMax(ec.points, k) - pt.portfolio_value
            IN  [date |-> pt.date, portfolio_value |-> pt.portfolio_value,
                 position_size |-> pt.position_size,
                 drawdown |-> dd,
                 drawdown_pct |-> <<dd, CumMax(ec.points, k)>>]]]

\* Line 90: equity_curve['drawdown_pct'].max() * 100
MaxDrawdown(ec) ==
    LET pcts == { WithDrawdown(ec).points[k].drawdown_pct : k \in 1..Len(ec.points) }
        worst == CHOOSE p \in pcts : \A q \in pcts : q[1] * p[2] <= p[1] * q[2]
    IN  <<worst[1] * 100, worst[2]>>

\* Lines 49 and 97-104: the columns Win and Duration are added to trades
\* (Duration is <<>> for NaT, <<d>> for the time since the previous exit).
WithWinDuration(ts) ==
    [n \in 1..Len(ts) |->
        [Entry |-> ts[n].Entry, Exit |-> ts[n].Exit, Type |-> ts[n].Type,
         PL |-> ts[n].PL, Date |-> ts[n].Date, Reason |-> ts[n].Reason,
         Size |-> ts[n].Size,
         Win |-> IsWin(ts[n]),
         Duration |-> IF n = 1 THEN <<>> ELSE <<ts[n].Date - ts[n - 1].Date>>]]

\* A value computed by the statistics library: only where it came from is known.
QS(key) == <<"quantstats", key>>

\* Lines 42-157: the core metrics.
CoreMetrics(ts, ec) ==
    LET profitable_trades == SelectSeq(ts, IsWin)
        losing_trades == SelectSeq(ts, IsLoss)
    IN  [win_rate |-> <<Len(profitable_trades) * 100, Len(ts)>>,
         total_trades |-> Len(ts),
         total_profit |-> SumPL(ts),
         profitable_trades |-> Len(profitable_trades),
         losing_trades |-> Len(losing_trades),
         profit_from_winners |-> SumPL(profitable_trades),
         loss_from_losers |-> SumPL(losing_trades),
         total_signals |-> ec.signal_counts.Long + ec.signal_counts.Short,
         profit_factor |-> IF SumPL(losing_trades) < 0
                           THEN <<SumPL(profitable_trades), 0 - SumPL(losing_trades)>>
                           ELSE <<>>,
         final_capital |-> ec.points[Len(ec.points)].portfolio_value,
         max_drawdown |-> MaxDrawdown(ec),
         max_win_streak |-> StreakScan(ts, 0, 0, 0, 0)[1],
         max_loss_streak |-> StreakScan(ts, 0, 0, 0, 0)[2],
         exit_reasons |-> ExitReasons(ts),
         qs_tearsheet |-> FALSE]

\* Lines 159-208: with the library, and none of its calls throwing,
\* metrics.update(qs_metrics) writes its measures over the keys it shares with
\* the core metrics and the tearsheet is added; a throw leaves metrics alone.
Metrics(ts, ec, threw) ==
    IF QUANTSTATS_AVAILABLE /\ ~threw
    THEN [CoreMetrics(ts, ec) EXCEPT !.win_rate = QS("win_rate"),
                                     !.max_drawdown = QS("max_drawdown"),
                                     !.qs_tearsheet = TRUE]
    ELSE CoreMetrics(ts, ec)

\* Strategy.py lines 52-66: report unless the ledger is empty, then return.
GenerateReport ==
    /\ pc = "done"
    /\ caller = "run_multi_timeframe_backtest"
    /\ pc' = "returned"
    /\ IF trades_df = <<>>
       THEN /\ metrics' = <<>>
            /\ UNCHANGED <<trades_df, trades_df_columns, equity_curve>>
       ELSE \E threw \in BOOLEAN :
            /\ metrics' = << Metrics(trades_df, equity_curve, threw) >>
            /\ trades_df' = WithWinDuration(trades_df)
            /\ trades_df_columns' = trades_df_columns \cup {"Win", "Duration"}
            /\ equity_curve' = WithDrawdown(equity_curve)
    /\ UNCHANGED <<inputs, lower_tf_data, i, position, entry_price, stop_loss,
                   take_profit, capital, trades, portfolio_value, dates,
                   positions_size, signal_counts, returns_df, trade_made, pnl, rule>>

\* Before anything ran: main.py's parameters with a lot of 1, any frames;
\* only a direct call of backtest_strategy can be handed NaN values
\* (data_loader.py line 67 drops them).
InitRun ==
    /\ caller \in {"backtest_strategy", "run_multi_timeframe_backtest"}
    /\ quantstats \in {"installed", "missing"}
    /\ caller = "backtest_strategy" => quantstats = "installed"
    /\ lower_has_nan = (caller = "backtest_strategy")
    /\ csv_columns \in { RequiredColumns, RequiredColumns \ {"volume"} }
    /\ caller = "backtest_strategy" => csv_columns = RequiredColumns
    /\ higher_tf_data \in HigherRun
    /\ initial_capital = 100
    /\ lot_size = 1
    /\ lower_tf_data \in { <<>>, << GoodRow(0, <<200, 200, 200>>, <<100, 100>>) >> }
    /\ i = 0
    /\ pc = "start"
    /\ position = "None"
    /\ entry_price = 0
    /\ stop_loss = 0
    /\ take_profit = 0
    /\ capital = initial_capital
    /\ trades = <<>>
    /\ portfolio_value = <<>>
    /\ dates = <<>>
    /\ positions_size = <<>>
    /\ signal_counts = [Long |-> 0, Short |-> 0]
    /\ returns_df = <<>>
    /\ trade_made = FALSE
    /\ pnl = 0
    /\ rule = "Start"
    /\ equity_curve = [points |-> <<>>, signal_counts |-> [Long |-> 0, Short |-> 0]]
    /\ trades_df = <<>>
    /\ trades_df_columns = {}
    /\ metrics = <<>>

NextRun ==
    \/ ImportReports
    \/ LoadCheck
    \/ EnterBacktest
    \/ SkipBar
    \/ LongEntry
    \/ ShortEntry
    \/ TrendChangeExit
    \/ LongStopTake
    \/ ShortStopTake
    \/ NoBranch
    \/ Return_
    \/ GenerateReport

SpecRun == InitRun /\ [][NextRun]_vars

(***************************************************************************)
(* Notions the properties are stated with                                  *)
(***************************************************************************)
LastTrade == trades[Len(trades)]

\* The row the last loop body read, and the row before it.
CurRow == lower_tf_data[Len(lower_tf_data)]
BeforeRow == lower_tf_data[Len(lower_tf_data) - 1]

\* A loop body ran in this step.
BarStep == i' = i + 1

\* Rows 1..i whose seven values all convert: the bars that were not skipped.
ProcessedBars ==
    { k \in 2..Len(lower_tf_data) :
        /\ lower_tf_data[k].nonnumeric = {}
        /\ lower_tf_data[k - 1].nonnumeric \cap {"EMA_Short", "EMA_Long"} = {} }

\* Trades whose exit date is at or before timestamp t.
TradesUpTo(t) ==
    LET upto(tr) == tr.Date <= t IN SelectSeq(trades, upto)

\* An entry branch taken while a position is open appends exactly one trade,
\* which records the position that was open.
OpenClosesPrevious ==
    BarStep /\ rule' \in {"LongEntry", "ShortEntry"} /\ position # "None" =>
        /\ Len(trades') = Len(trades) + 1
        /\ SubSeq(trades', 1, Len(trades)) = trades
        /\ trades'[Len(trades')].Type = position
        /\ trades'[Len(trades')].Entry = entry_price
        /\ trades'[Len(trades')].Date = i'

(***************************************************************************)
(* C1: position is always one of None, Long, Short (so at most one position*)
(* is open), and a loop body that opens a position while one is open first *)
(* closes the open one: exactly one trade is appended on that bar, and it  *)
(* records the old position (its type, its entry price, this bar as date). *)
(***************************************************************************)
C1_OnePosition ==
    /\ [](position \in {"None", "Long", "Short"})
    /\ [][OpenClosesPrevious]_vars

\* A Short position replaced by a Long one on bar i.
C1_Witness ==
    /\ rule = "LongEntry"
    /\ position = "Long"
    /\ trade_made
    /\ LastTrade.Type = "Short"
    /\ LastTrade.Date = i

(***************************************************************************)
(* C2 (as stated): on every bar a trade is appended if and only if the     *)
(* position goes from open to None or an open position is replaced by a    *)
(* position of the opposing direction.                                     *)
(***************************************************************************)
C2_TradeIffCloseOrOpposite ==
    [][BarStep =>
        ( Len(trades') = Len(trades) + 1
          <=> \/ (position # "None" /\ position' = "None")
              \/ (position # "None" /\ position' # "None" /\ position' # position) )
      ]_vars

(***************************************************************************)
(* C2 (amended): on every bar at most one trade is appended, and one is    *)
(* appended if and only if a position was open before the bar and the bar  *)
(* either ends with no position or took an entry branch (which replaces    *)
(* the open position, whatever its direction, the same direction included).*)
(***************************************************************************)
C2_TradeIffCloseOrReplace ==
    [][BarStep =>
        /\ Len(trades') \in {Len(trades), Len(trades) + 1}
        /\ SubSeq(trades', 1, Len(trades)) = trades
        /\ ( Len(trades') = Len(trades) + 1
             <=> /\ position # "None"
                 /\ \/ position' = "None"
                    \/ signal_counts' # signal_counts )
      ]_vars

\* A Long position replaced by a Long position, with a trade.
C2_Witness ==
    /\ rule = "LongEntry"
    /\ position = "Long"
    /\ trade_made
    /\ LastTrade.Type = "Long"
    /\ LastTrade.Reason = "New Signal"
    /\ LastTrade.Date = i

(***************************************************************************)
(* C3: conservation.  Every equity point's portfolio_value is              *)
(* initial_capital plus the P&L of the trades appended up to and including *)
(* that bar; capital is initial_capital plus the P&L of all trades; and    *)
(* capital is the last portfolio_value except across skipped bars, where   *)
(* neither changes.                                                        *)
(***************************************************************************)
C3_Conservation ==
    /\ capital = 500 + SumPL(trades)
    /\ Len(portfolio_value) = Len(dates)
    /\ \A k \in 1..Len(dates) :
          portfolio_value[k] = 500 + SumPL(TradesUpTo(dates[k]))
    /\ portfolio_value[Len(portfolio_value)] = capital

C3_Witness ==
    /\ Len(trades) >= 2
    /\ SumPL(trades) # 0
    /\ trades[1].PL # 0
    /\ capital # 500
    /\ portfolio_value[Len(portfolio_value) - 1] # capital

(***************************************************************************)
(* C4: after the return, the equity curve has one point per bar that was   *)
(* not skipped plus the seed point (first timestamp, initial_capital, 0),  *)
(* and the last point's position_size is lot_size when the final position  *)
(* is open and 0 when it is None, also when the last bars were skipped.    *)
(***************************************************************************)
C4_EquityCurveShape ==
    pc = "done" =>
        LET pts == equity_curve.points IN
        /\ Len(pts) = Cardinality(ProcessedBars) + 1
        /\ pts[1] = [date |-> lower_tf_data[1].ts, portfolio_value |-> 500,
                     position_size |-> 0]
        /\ pts[Len(pts)].position_size =
              (IF position = "None" THEN 0 ELSE lot_size)

\* Returned with an open position after a skipped last bar.
C4_Witness ==
    /\ pc = "done"
    /\ position # "None"
    /\ rule = "Skip"
    /\ Len(equity_curve.points) = 2
    /\ Len(lower_tf_data) = 4
    /\ equity_curve.points[2].position_size = 2

(***************************************************************************)
(* C5: a bar appends at most one trade and counts at most one signal.  The *)
(* entry branches may close and open on the same bar; the trend-reversal   *)
(* and stop/take branches count no signal and either close the position    *)
(* (position becomes None) or change nothing about it.                     *)
(***************************************************************************)
C5_OneRulePerBar ==
    [][BarStep =>
        /\ Len(trades') \in {Len(trades), Len(trades) + 1}
        /\ (signal_counts'.Long - signal_counts.Long)
             + (signal_counts'.Short - signal_counts.Short) \in {0, 1}
        /\ ( signal_counts' = signal_counts =>
               \/ /\ position # "None"
                  /\ position' = "None"
                  /\ Len(trades') = Len(trades) + 1
                  /\ trades'[Len(trades')].Reason
                        \in {"Trend Change", "Stop Loss", "Take Profit"}
               \/ /\ position' = position
                  /\ UNCHANGED <<entry_price, stop_loss, take_profit, trades, capital>> )
        /\ ( signal_counts' # signal_counts =>
               /\ position' # "None"
               /\ entry_price' = lower_tf_data'[Len(lower_tf_data')].close
               /\ (Len(trades') = Len(trades) + 1 =>
                     trades'[Len(trades')].Reason = "New Signal") )
      ]_vars

\* An entry branch that closed a Long and opened a Short on one bar.
C5_Witness ==
    /\ rule = "ShortEntry"
    /\ position = "Short"
    /\ trade_made
    /\ LastTrade.Type = "Long"
    /\ LastTrade.Date = i
    /\ entry_price = CurRow.close

\* The row a step reads and the row before it, seen from the step.
NewRow == lower_tf_data'[Len(lower_tf_data')]
OldRow == lower_tf_data[Len(lower_tf_data)]

\* The step is a loop body whose seven values are all numeric (the bar is not skipped).
NumericBarStep ==
    /\ BarStep
    /\ NewRow.nonnumeric = {}
    /\ OldRow.nonnumeric \cap {"EMA_Short", "EMA_Long"} = {}

\* The higher-timeframe trend at the bar the step reads.
NewTrend == determine_trend(higher_tf_data, NewRow.ts)

\* An entry signal fires on the bar the step reads.
EntrySignalFires ==
    \/ LongSignal(NewRow, OldRow, NewTrend)
    \/ ShortSignal(NewRow, OldRow, NewTrend)

\* The step appends exactly the trade tr.
Appends(tr) == trades' = Append(trades, tr)

(***************************************************************************)
(* C6: on a bar that is not skipped and on which no entry signal fires, a  *)
(* Long position under a Bearish trend (a Short position under a Bullish   *)
(* trend) is closed at the bar's close with reason Trend Change, whatever  *)
(* the bar's high and low are, so also when the stop or the target is      *)
(* touched on that bar.                                                    *)
(***************************************************************************)
C6_TrendExitBeforeStopTake ==
    [][NumericBarStep /\ ~EntrySignalFires =>
        /\ ( position = "Long" /\ NewTrend = "Bearish" =>
               /\ position' = "None"
               /\ Appends([Entry |-> entry_price, Exit |-> NewRow.close,
                           Type |-> "Long",
                           PL |-> (NewRow.close - entry_price) * lot_size,
                           Date |-> NewRow.ts, Reason |-> "Trend Change",
                           Size |-> lot_size]) )
        /\ ( position = "Short" /\ NewTrend = "Bullish" =>
               /\ position' = "None"
               /\ Appends([Entry |-> entry_price, Exit |-> NewRow.close,
                           Type |-> "Short",
                           PL |-> (entry_price - NewRow.close) * lot_size,
                           Date |-> NewRow.ts, Reason |-> "Trend Change",
                           Size |-> lot_size]) )
      ]_vars

\* A Long closed by Trend Change on a bar whose low is at or below its stop
\* and whose high is at or above its target.
C6_Witness ==
    /\ rule = "TrendExit"
    /\ position = "None"
    /\ LastTrade.Type = "Long"
    /\ LastTrade.Reason = "Trend Change"
    /\ LastTrade.Date = i
    /\ CurRow.low <= stop_loss
    /\ CurRow.high >= take_profit

(***************************************************************************)
(* C7 (as stated): with an open Long position, a bar with low <= stop_loss *)
(* and high >= take_profit closes the position on that bar with reason     *)
(* Stop Loss at exit price stop_loss.  Stated for bars whose values are    *)
(* all numeric.                                                            *)
(***************************************************************************)
C7_BothTouchedStopLoss ==
    [][NumericBarStep /\ position = "Long"
         /\ NewRow.low <= stop_loss /\ NewRow.high >= take_profit =>
        /\ position' = "None"
        /\ Len(trades') = Len(trades) + 1
        /\ trades'[Len(trades')].Reason = "Stop Loss"
        /\ trades'[Len(trades')].Exit = stop_loss
      ]_vars

(***************************************************************************)
(* C7 (amended): with an open Long position, a bar with low <= stop_loss   *)
(* and high >= take_profit that reaches the Long stop/take check (the bar  *)
(* is not skipped, no entry signal fires on it and the higher-timeframe    *)
(* trend is not Bearish) closes the position on that bar with reason Stop  *)
(* Loss at exit price stop_loss.                                           *)
(***************************************************************************)
C7_BothTouchedStopLossAtCheck ==
    [][NumericBarStep /\ position = "Long"
         /\ ~EntrySignalFires /\ NewTrend # "Bearish"
         /\ NewRow.low <= stop_loss /\ NewRow.high >= take_profit =>
        /\ position' = "None"
        /\ Appends([Entry |-> entry_price, Exit |-> stop_loss, Type |-> "Long",
                    PL |-> (stop_loss - entry_price) * lot_size,
                    Date |-> NewRow.ts, Reason |-> "Stop Loss",
                    Size |-> lot_size])
      ]_vars

\* A Long stopped out on a bar that also reached its target.
C7_Witness ==
    /\ rule = "LongStopTake"
    /\ position = "None"
    /\ LastTrade.Date = i
    /\ LastTrade.Reason = "Stop Loss"
    /\ LastTrade.Exit = stop_loss
    /\ CurRow.low <= stop_loss
    /\ CurRow.high >= take_profit

(***************************************************************************)
(* C8: on a bar that is not skipped, a Long entry signal fires (the Long   *)
(* signal counter goes up) exactly when prev EMA_Short <= prev EMA_Long,   *)
(* EMA_Short > EMA_Long and the trend is Bullish; after it position is     *)
(* Long, entry_price is the bar's close, stop_loss is                      *)
(* entry_price * (1 - risk_percent/100) and take_profit is                 *)
(* entry_price + (entry_price - stop_loss) * risk_reward_ratio: with risk  *)
(* 1 and ratio 2, a close of 100 gives stop 99 and target 102.             *)
(***************************************************************************)
C8_LongEntry ==
    [][NumericBarStep =>
        LET fires == /\ OldRow.EMA_Short <= OldRow.EMA_Long
                     /\ NewRow.EMA_Short > NewRow.EMA_Long
                     /\ NewTrend = "Bullish"
        IN  /\ fires <=> signal_counts'.Long = signal_counts.Long + 1
            /\ ~fires => signal_counts'.Long = signal_counts.Long
            /\ fires =>
                 /\ position' = "Long"
                 /\ entry_price' = NewRow.close
                 /\ 100 * stop_loss' = entry_price' * (100 - 1)
                 /\ take_profit' = entry_price' + (entry_price' - stop_loss') * 2
                 /\ (NewRow.close = 100 => stop_loss' = 99 /\ take_profit' = 102)
      ]_vars

\* A Long entry at close 100 from equal previous EMAs.
C8_Witness ==
    /\ rule = "LongEntry"
    /\ position = "Long"
    /\ BeforeRow.EMA_Short = BeforeRow.EMA_Long
    /\ entry_price = 100
    /\ stop_loss = 99
    /\ take_profit = 102

\* The Long position of the scenario: entered at 100 with risk 1, ratio 2, lot 1.
ScenarioLong ==
    /\ position = "Long"
    /\ entry_price = 100
    /\ stop_loss = 99
    /\ take_profit = 102
    /\ lot_size = 1

(***************************************************************************)
(* C9 (as stated): while the Long position entered at close 100 (risk 1,   *)
(* ratio 2, lot 1) is open, a bar with high 103 and low 98 closes it with  *)
(* reason Stop Loss, exit price 99 and P&L -1.  Stated for bars whose      *)
(* values are all numeric and on which no entry signal fires (the scenario *)
(* has a single entry).                                                    *)
(***************************************************************************)
C9_ScenarioStopLoss ==
    [][NumericBarStep /\ ScenarioLong /\ ~EntrySignalFires
         /\ NewRow.high = 103 /\ NewRow.low = 98 =>
        /\ position' = "None"
        /\ Len(trades') = Len(trades) + 1
        /\ trades'[Len(trades')].Reason = "Stop Loss"
        /\ trades'[Len(trades')].Exit = 99
        /\ trades'[Len(trades')].PL = -1
      ]_vars

(***************************************************************************)
(* C9 (amended): while the Long position entered at close 100 (risk 1,     *)
(* ratio 2, lot 1) is open, a bar with high 103 and low 98 that reaches    *)
(* the Long stop/take check (the bar is not skipped, no entry signal fires *)
(* on it and the higher-timeframe trend is not Bearish) closes it with     *)
(* reason Stop Loss, exit price 99 and P&L -1.                             *)
(***************************************************************************)
C9_ScenarioStopLossAtCheck ==
    [][NumericBarStep /\ ScenarioLong
         /\ ~EntrySignalFires /\ NewTrend # "Bearish"
         /\ NewRow.high = 103 /\ NewRow.low = 98 =>
        /\ position' = "None"
        /\ Len(trades') = Len(trades) + 1
        /\ SubSeq(trades', 1, Len(trades)) = trades
        /\ trades'[Len(trades')].Type = "Long"
        /\ trades'[Len(trades')].Entry = 100
        /\ trades'[Len(trades')].Reason = "Stop Loss"
        /\ trades'[Len(trades')].Exit = 99
        /\ trades'[Len(trades')].PL = -1
        /\ capital' = capital - 1
      ]_vars

\* The scenario's position stopped out at 99 by the bar (low 98, high 103).
C9_Witness ==
    /\ rule = "LongStopTake"
    /\ lot_size = 1
    /\ position = "None"
    /\ CurRow.high = 103
    /\ CurRow.low = 98
    /\ LastTrade = [Entry |-> 100, Exit |-> 99, Type |-> "Long", PL |-> -1,
                    Date |-> i, Reason |-> "Stop Loss", Size |-> 1]

\* Row k (k >= 2) is a bar that was not skipped and on which an entry signal fires.
EntryBar(k) ==
    /\ k \in ProcessedBars
    /\ LET t == determine_trend(higher_tf_data, lower_tf_data[k].ts)
       IN  \/ LongSignal(lower_tf_data[k], lower_tf_data[k - 1], t)
           \/ ShortSignal(lower_tf_data[k], lower_tf_data[k - 1], t)

\* The row on which the position closed at timestamp d was opened: the last
\* entry bar before d (0 when there is none).
OpeningRow(d) ==
    LET before == { k \in 2..Len(lower_tf_data) :
                      EntryBar(k) /\ lower_tf_data[k].ts < d }
    IN  IF before = {} THEN 0
        ELSE CHOOSE k \in before : \A m \in before : m <= k

(***************************************************************************)
(* C10: every trade of the ledger, whatever its exit reason, has           *)
(* P&L = (Exit - Entry) * Size when its Type is Long and                   *)
(* P&L = (Entry - Exit) * Size when its Type is Short, Size = lot_size,    *)
(* and Entry equal to the close of the bar on which its position was       *)
(* opened.                                                                 *)
(***************************************************************************)
C10_TradePnL ==
    \A n \in 1..Len(trades) :
        LET tr == trades[n] IN
        /\ tr.Type \in {"Long", "Short"}
        /\ tr.Size = lot_size
        /\ tr.Type = "Long" => tr.PL = (tr.Exit - tr.Entry) * tr.Size
        /\ tr.Type = "Short" => tr.PL = (tr.Entry - tr.Exit) * tr.Size
        /\ OpeningRow(tr.Date) # 0
        /\ tr.Entry = lower_tf_data[OpeningRow(tr.Date)].close

\* Trades of both types and of three exit reasons, with lot size 2 and a
\* Short trade that lost.
C10_Witness ==
    /\ lot_size = 2
    /\ \E n \in 1..Len(trades) : trades[n].Type = "Short" /\ trades[n].PL < 0
    /\ \E n \in 1..Len(trades) : trades[n].Type = "Long" /\ trades[n].PL # 0
    /\ \E n \in 1..Len(trades) : trades[n].Reason = "New Signal"

\* The trend the as-of lookup must give at t: that of the candle with the
\* largest timestamp <= t, Neutral when there is none.
AsOfTrend(t) ==
    LET past == { k \in 1..Len(higher_tf_data) : higher_tf_data[k].ts <= t }
    IN  IF past = {} THEN "Neutral"
        ELSE LET k == CHOOSE k \in past :
                        \A m \in past : higher_tf_data[m].ts <= higher_tf_data[k].ts
                 c == higher_tf_data[k]
             IN  IF c.EMA_Short > c.EMA_Long THEN "Bullish"
                 ELSE IF c.EMA_Short < c.EMA_Long THEN "Bearish"
                 ELSE "Neutral"

(***************************************************************************)
(* C11: determine_trend(higher, t) is the trend of the latest higher       *)
(* candle with timestamp <= t (the candle at exactly t when there is one,  *)
(* never a later one): Bullish when its EMA_Short > EMA_Long, Bearish when *)
(* <, Neutral when equal, and Neutral when no candle has timestamp <= t.   *)
(***************************************************************************)
C11_AsOfLookup ==
    \A t \in 0..(MaxBars + 1) :
        determine_trend(higher_tf_data, t) = AsOfTrend(t)

\* Bar 2 falls exactly on the second higher candle, whose trend (Bearish)
\* differs from the first one's (Bullish), and the engine acted on it.
C11_Witness ==
    /\ Len(higher_tf_data) = 2
    /\ higher_tf_data[2].ts = 2
    /\ determine_trend(higher_tf_data, 1) = "Bullish"
    /\ determine_trend(higher_tf_data, 2) = "Bearish"
    /\ i = 2
    /\ rule = "TrendExit"

\* The return leaves an open position as it is.
ReturnKeepsOpenPosition ==
    pc = "loop" /\ pc' = "done" /\ position # "None" =>
        /\ position' = position
        /\ trades_df' = trades
        /\ capital' = capital
        /\ equity_curve'.points[Len(equity_curve'.points)].position_size = lot_size
        /\ equity_curve'.points[Len(equity_curve'.points)].portfolio_value = capital

(***************************************************************************)
(* C12: a position that is open after the last bar is not force-closed.    *)
(* The return appends no trade for it, leaves capital alone (capital is    *)
(* initial_capital plus the P&L of the trades in the ledger, all of them   *)
(* closed on or before the bar that opened this position) and the final    *)
(* equity point has position_size = lot_size.                              *)
(***************************************************************************)
C12_OpenPositionStaysOpen ==
    /\ [][ReturnKeepsOpenPosition]_vars
    /\ [](pc = "done" /\ position # "None" =>
            /\ capital = initial_capital + SumPL(trades_df)
            /\ \A n \in 1..Len(trades_df) :
                  /\ OpeningRow(i + 1) # 0
                  /\ trades_df[n].Date <= lower_tf_data[OpeningRow(i + 1)].ts
                  /\ trades_df[n].Date = lower_tf_data[OpeningRow(i + 1)].ts
                        => trades_df[n].Reason = "New Signal")

\* Returned with a Short still open, opened by the reversal that closed a Long.
C12_Witness ==
    /\ pc = "done"
    /\ position = "Short"
    /\ Len(trades_df) = 1
    /\ trades_df[1].Type = "Long"
    /\ trades_df[1].PL # 0
    /\ equity_curve.points[Len(equity_curve.points)].position_size = lot_size
    /\ capital = initial_capital + SumPL(trades_df)

\* Every lower row read so far is numeric, closes where the first one closed
\* and has EMA_Short = EMA_Long.
FlatLower ==
    \A k \in 1..Len(lower_tf_data) :
        /\ lower_tf_data[k].nonnumeric = {}
        /\ lower_tf_data[k].nan = {}
        /\ lower_tf_data[k].close = lower_tf_data[1].close
        /\ lower_tf_data[k].EMA_Short = lower_tf_data[k].EMA_Long

FlatHigher ==
    \A k \in 1..Len(higher_tf_data) :
        higher_tf_data[k].EMA_Short = higher_tf_data[k].EMA_Long

(***************************************************************************)
(* C17: on a flat price series (every close equal, EMA_Short = EMA_Long on *)
(* every bar) there is no trade, every equity point has                    *)
(* portfolio_value = initial_capital and position_size = 0, and the signal *)
(* counts are Long = 0 and Short = 0.  The lower series being flat is      *)
(* enough: it holds for every higher series, the flat ones included.       *)
(***************************************************************************)
C17_FlatSeries ==
    FlatLower =>
        /\ trades = <<>>
        /\ position = "None"
        /\ signal_counts = [Long |-> 0, Short |-> 0]
        /\ \A k \in 1..Len(dates) :
              portfolio_value[k] = initial_capital /\ positions_size[k] = 0
        /\ pc = "done" =>
              /\ trades_df = <<>>
              /\ equity_curve.signal_counts = [Long |-> 0, Short |-> 0]
              /\ \A k \in 1..Len(equity_curve.points) :
                    /\ equity_curve.points[k].portfolio_value = initial_capital
                    /\ equity_curve.points[k].position_size = 0

\* A run over MaxBars flat bars, with both series flat, has returned.
C17_Witness ==
    /\ pc = "done"
    /\ FlatLower
    /\ FlatHigher
    /\ Len(equity_curve.points) = MaxBars + 1
    /\ trades_df = <<>>

\* Processed bars on which the long (short) entry rule matched.
LongMatched ==
    { k \in ProcessedBars :
        LongSignal(lower_tf_data[k], lower_tf_data[k - 1],
                   determine_trend(higher_tf_data, lower_tf_data[k].ts)) }

ShortMatched ==
    { k \in ProcessedBars :
        ShortSignal(lower_tf_data[k], lower_tf_data[k - 1],
                    determine_trend(higher_tf_data, lower_tf_data[k].ts)) }

(***************************************************************************)
(* C18: the Long (Short) signal counter is the number of processed bars on *)
(* which the long (short) entry rule matched, whether or not the bar also  *)
(* closed a position; a bar on which another rule, no rule or the skip was *)
(* taken leaves the counters alone; the returned equity curve carries them.*)
(***************************************************************************)
C18_SignalCounts ==
    /\ [](/\ signal_counts.Long = Cardinality(LongMatched)
          /\ signal_counts.Short = Cardinality(ShortMatched)
          /\ pc = "done" => equity_curve.signal_counts = signal_counts)
    /\ [][BarStep /\ rule' \notin {"LongEntry", "ShortEntry"}
            => signal_counts' = signal_counts]_vars

\* Both counters moved, one of the signals also closed the opposite position,
\* and the run has returned them.
C18_Witness ==
    /\ pc = "done"
    /\ equity_curve.signal_counts.Long >= 1
    /\ equity_curve.signal_counts.Short >= 1
    /\ \E n \in 1..Len(trades) : trades[n].Reason = "New Signal"
    /\ Cardinality(LongMatched) + Cardinality(ShortMatched) > Len(trades)

\* Bar k (row k of the rows read, k >= 2) got an equity point.
HasEquityPoint(k) == \E n \in 1..Len(dates) : dates[n] = lower_tf_data[k].ts

(***************************************************************************)
(* C15, as stated: a bar with a non-numeric field causes only that bar to  *)
(* be skipped, so every bar whose own fields are numeric gets its equity   *)
(* point.  Violated: the bar after a bar with a non-numeric EMA is skipped *)
(* too, because it reads that EMA as the previous bar's.                   *)
(***************************************************************************)
C15_OnlyThatBarSkipped ==
    \A k \in 2..Len(lower_tf_data) :
        HasEquityPoint(k) <=> lower_tf_data[k].nonnumeric = {}

(***************************************************************************)
(* C15, amended: a bar is skipped exactly when one of its own high, low,   *)
(* close, EMA_Short, EMA_Long or one of its previous bar's EMA_Short,      *)
(* EMA_Long is rejected by the conversion; so a bar with a non-numeric     *)
(* price field causes that bar alone to be skipped, a bar with a           *)
(* non-numeric EMA causes that bar and the next one to be skipped, and     *)
(* every other bar is processed (gets its equity point and exactly one     *)
(* rule evaluation); the loop goes on over the whole series.               *)
(***************************************************************************)
C15_SkippedIffUnconvertible ==
    /\ [](/\ \A k \in 2..Len(lower_tf_data) : HasEquityPoint(k) <=> k \in ProcessedBars
          /\ Len(dates) = 1 + Cardinality(ProcessedBars)
          /\ Len(returns_df) = Len(lower_tf_data))
    /\ [][BarStep => (rule' = "Skip" <=> Len(lower_tf_data') \notin ProcessedBars')]_vars

\* Bar 1 has a non-numeric EMA_Short: bars 1 and 2 are skipped, and bar 3 is
\* processed and opens a Long.
C15_Witness ==
    /\ Len(lower_tf_data) = 4
    /\ lower_tf_data[2].nonnumeric = {"EMA_Short"}
    /\ lower_tf_data[3].nonnumeric = {}
    /\ lower_tf_data[4].nonnumeric = {}
    /\ dates = <<0, 3>>
    /\ rule = "LongEntry"
    /\ position = "Long"

\* A value the bar needs is missing (NaN) or non-numeric: one of the bar's own
\* high, low, close, EMA_Short, EMA_Long or one of the previous bar's EMAs.
Unusable(row, prev_row) ==
    \/ (row.nonnumeric \cup row.nan) \cap (PriceFields \cup EMAFields) # {}
    \/ (prev_row.nonnumeric \cup prev_row.nan) \cap EMAFields # {}

(***************************************************************************)
(* C14: a bar whose required high/low/close/EMA value, or whose previous   *)
(* bar's EMA value, is missing or non-numeric is skipped: position,        *)
(* entry_price, stop_loss, take_profit, capital, the ledger and the signal *)
(* counters are unchanged and no equity point is appended.  Violated: a    *)
(* missing value (NaN) passes float(), so the bar is processed.            *)
(***************************************************************************)
C14_UnusableBarSkipped ==
    [][BarStep /\ Unusable(NewRow, OldRow) =>
          UNCHANGED <<position, entry_price, stop_loss, take_profit, capital,
                      trades, signal_counts, portfolio_value, dates,
                      positions_size>>]_vars

EmptyInput == lower_tf_data = <<>> \/ higher_tf_data = <<>>

(***************************************************************************)
(* C16: with an empty lower or higher series no bar is simulated and the   *)
(* ledger is empty: backtest_strategy returns at once with empty frames,   *)
(* and run_multi_timeframe_backtest returns without calling it.  When      *)
(* run_multi_timeframe_backtest gets an empty ledger back (a series with   *)
(* no closed trade) it skips the report: metrics is None, and the ledger   *)
(* (empty, with the trade columns) and the equity curve are returned as    *)
(* backtest_strategy built them.                                           *)
(***************************************************************************)
C16_EmptyInputs ==
    /\ [](EmptyInput =>
            /\ pc \in {"start", "load", "exit_none", "missing_data", "ImportError"}
            /\ i = 0
            /\ dates = <<>>
            /\ trades = <<>>
            /\ trades_df = <<>>
            /\ equity_curve.points = <<>>
            /\ returns_df = <<>>
            /\ metrics = <<>>)
    /\ [](pc = "missing_data" => EmptyInput /\ caller = "backtest_strategy")
    /\ [](pc = "exit_none" => EmptyInput \/ ~(RequiredColumns \subseteq csv_columns))
    /\ [](pc = "returned" =>
            /\ trades = <<>> <=> metrics = <<>>
            /\ trades = <<>> =>
                  /\ trades_df = <<>>
                  /\ trades_df_columns = TradeColumns
                  /\ equity_curve.points = [k \in 1..Len(dates) |-> EquityPoint(k)])

\* backtest_strategy, called with a lower series and an empty higher series,
\* has returned its empty frames.
C16_Witness ==
    /\ pc = "missing_data"
    /\ higher_tf_data = <<>>
    /\ lower_tf_data # <<>>
    /\ trades_df = <<>>

\* The trade that closed on the bar of row k, as a sequence of at most one.
ClosedOn(k) ==
    LET on(tr) == tr.Date = lower_tf_data[k].ts IN SelectSeq(trades, on)

\* Capital when the bar of row k began: the trades closed on earlier bars.
CapitalBefore(k) ==
    LET earlier(tr) == tr.Date < lower_tf_data[k].ts
    IN  initial_capital + SumPL(SelectSeq(trades, earlier))

(***************************************************************************)
(* C19: the return recorded for a bar is pnl / (capital before adding that *)
(* pnl) when a trade closed on that bar, 0 when that denominator is 0, and *)
(* 0 for every bar on which no trade closed (first bar, bars with an open  *)
(* position, skipped bars).                                                *)
(***************************************************************************)
C19_PerBarReturn ==
    /\ pc \in {"loop", "done", "returned"} => Len(returns_df) = Len(lower_tf_data)
    /\ \A k \in 1..Len(returns_df) :
          returns_df[k] =
              IF k = 1 \/ k \notin ProcessedBars \/ ClosedOn(k) = <<>> THEN <<0, 1>>
              ELSE IF CapitalBefore(k) = 0 THEN <<0, 1>>
              ELSE <<ClosedOn(k)[1].PL, CapitalBefore(k)>>

\* The first trade lost the whole capital, so the second one, with a P&L that
\* is not 0, closed on a bar that began with capital 0: its return is 0.
C19_Witness ==
    /\ Len(trades) = 2
    /\ initial_capital + trades[1].PL = 0
    /\ trades[2].PL # 0
    /\ Len(returns_df) = 4
    /\ returns_df[3] = <<trades[1].PL, initial_capital>>
    /\ returns_df[4] = <<0, 1>>

(***************************************************************************)
(* C20: the statistics library is optional: when it cannot be imported or  *)
(* one of its calls throws, the report on a non-empty ledger still returns *)
(* the core metrics (win rate, profit factor, drawdown, streaks, exit      *)
(* reasons) and only the optional section is left out.  Violated: with the *)
(* library missing, importing Reports raises.                              *)
(***************************************************************************)
C20_QuantstatsOptional ==
    /\ pc # "ImportError"
    /\ pc = "returned" /\ trades # <<>> =>
          /\ metrics # <<>>
          /\ ~metrics[1].qs_tearsheet =>
                /\ metrics[1].win_rate =
                      <<Cardinality({ n \in 1..Len(trades) : trades[n].PL > 0 }) * 100,
                        Len(trades)>>
                /\ metrics[1].total_trades = Len(trades)
                /\ metrics[1].exit_reasons = ExitReasons(trades)
                /\ metrics[1].max_win_streak + metrics[1].max_loss_streak >= 1
                /\ metrics[1].final_capital = capital

\* The ledger after a step is the ledger before it, with at most one trade
\* added at the end.
LedgerGrowsAtEnd ==
    /\ Len(trades') \in {Len(trades), Len(trades) + 1}
    /\ \A n \in 1..Len(trades) : trades'[n] = trades[n]

(***************************************************************************)
(* C22: the trade ledger is append-only and ordered by exit time: a step   *)
(* never changes or removes a trade already in the ledger, the Dates of    *)
(* successive trades are strictly increasing, and the returned ledger is   *)
(* that list.                                                              *)
(***************************************************************************)
C22_AppendOnlyOrdered ==
    /\ [][LedgerGrowsAtEnd]_vars
    /\ [](\A n \in 1..(Len(trades) - 1) : trades[n].Date < trades[n + 1].Date)
    /\ [](pc = "done" => trades_df = trades)

\* Two trades closed on successive bars, by two different rules, were returned.
C22_Witness ==
    /\ pc = "done"
    /\ Len(trades_df) = 2
    /\ trades_df[1].Reason = "New Signal"
    /\ trades_df[2].Reason \in {"Stop Loss", "Take Profit"}
    /\ trades_df[1].Date + 1 = trades_df[2].Date

(***************************************************************************)
(* C26: after any prefix of bars the number of trades in the ledger is the *)
(* total signal count (Long + Short) when no position is open and one less *)
(* when a position is open; so there is no trade before the first signal.  *)
(***************************************************************************)
C26_TradesVersusSignals ==
    /\ position = "None" => Len(trades) = signal_counts.Long + signal_counts.Short
    /\ position # "None" => Len(trades) = signal_counts.Long + signal_counts.Short - 1
    /\ signal_counts.Long + signal_counts.Short = 0 => trades = <<>>

\* A second signal closed the position the first one opened and opened its own.
C26_Witness ==
    /\ position = "Short"
    /\ signal_counts = [Long |-> 1, Short |-> 1]
    /\ Len(trades) = 1
    /\ trades[1].Type = "Long"

\* The entry conditions on the bar a step reads, spelled out.
LongFires ==
    /\ OldRow.EMA_Short <= OldRow.EMA_Long
    /\ NewRow.EMA_Short > NewRow.EMA_Long
    /\ NewTrend = "Bullish"

ShortFires ==
    /\ OldRow.EMA_Short >= OldRow.EMA_Long
    /\ NewRow.EMA_Short < NewRow.EMA_Long
    /\ NewTrend = "Bearish"

(***************************************************************************)
(* C23: when an entry signal fires on a bar while a position is open, in   *)
(* the signal's direction or the other, that position is closed at the     *)
(* bar's close with reason New Signal, its P&L is added to capital, and a  *)
(* position in the signal's direction is opened at the same close with     *)
(* stop_loss and take_profit computed from that close.                     *)
(***************************************************************************)
C23_SignalOnOpenPosition ==
    [][NumericBarStep /\ position # "None" /\ (LongFires \/ ShortFires) =>
        LET c == NewRow.close
            p == IF position = "Long" THEN (c - entry_price) * lot_size
                 ELSE (entry_price - c) * lot_size
        IN  /\ Appends([Entry |-> entry_price, Exit |-> c, Type |-> position,
                        PL |-> p, Date |-> NewRow.ts, Reason |-> "New Signal",
                        Size |-> lot_size])
            /\ capital' = capital + p
            /\ position' = IF LongFires THEN "Long" ELSE "Short"
            /\ entry_price' = c
            /\ 100 * stop_loss' = IF LongFires THEN c * 99 ELSE c * 101
            /\ take_profit' = IF LongFires THEN c + (c - stop_loss') * 2
                              ELSE c - (stop_loss' - c) * 2
      ]_vars

\* A Long signal on an open Long: the old Long was closed at this bar's close,
\* with a loss, and a new Long with its own levels was opened there.
C23_Witness ==
    /\ rule = "LongEntry"
    /\ position = "Long"
    /\ trades # <<>>
    /\ LastTrade.Type = "Long"
    /\ LastTrade.Reason = "New Signal"
    /\ LastTrade.Date = CurRow.ts
    /\ LastTrade.PL < 0
    /\ entry_price = CurRow.close
    /\ entry_price # LastTrade.Entry
    /\ stop_loss = 99

(***************************************************************************)
(* C24: with a Short open on a bar that is not skipped, on which no entry  *)
(* signal fires and the trend is not Bullish, the position closes iff      *)
(* high >= stop_loss or low <= take_profit; the exit price is the level    *)
(* touched, and stop_loss with reason Stop Loss when both are touched.  A  *)
(* Short opened at close c has stop_loss = c * (1 + risk_percent/100) and  *)
(* take_profit = c - (stop_loss - c) * risk_reward_ratio (101 and 98 for   *)
(* c = 100, risk 1, ratio 2).                                              *)
(***************************************************************************)
C24_ShortStopTake ==
    /\ [][NumericBarStep /\ position = "Short" /\ ~LongFires /\ ~ShortFires
            /\ NewTrend # "Bullish" =>
            LET stop == NewRow.high >= stop_loss
                take == NewRow.low <= take_profit
                closed(price, reason) ==
                    /\ Appends([Entry |-> entry_price, Exit |-> price, Type |-> "Short",
                                PL |-> (entry_price - price) * lot_size,
                                Date |-> NewRow.ts, Reason |-> reason,
                                Size |-> lot_size])
                    /\ position' = "None"
                    /\ capital' = capital + (entry_price - price) * lot_size
            IN  /\ stop => closed(stop_loss, "Stop Loss")
                /\ ~stop /\ take => closed(take_profit, "Take Profit")
                /\ ~stop /\ ~take => UNCHANGED <<position, trades, capital>>
         ]_vars
    /\ [][NumericBarStep /\ ShortFires =>
            /\ position' = "Short"
            /\ 100 * stop_loss' = NewRow.close * 101
            /\ take_profit' = NewRow.close - (stop_loss' - NewRow.close) * 2
            /\ (NewRow.close = 100 => stop_loss' = 101 /\ take_profit' = 98)
         ]_vars

\* A Short opened at 100 met a bar with high 103 and low 98: both levels were
\* touched and it left at the stop.
C24_Witness ==
    /\ rule = "ShortStopTake"
    /\ position = "None"
    /\ LastTrade.Type = "Short"
    /\ LastTrade.Entry = 100
    /\ CurRow.high >= 101
    /\ CurRow.low <= 98
    /\ LastTrade.Exit = 101
    /\ LastTrade.Reason = "Stop Loss"
    /\ LastTrade.PL < 0

(***************************************************************************)
(* C28: on a bar that is not skipped and whose higher-timeframe trend is   *)
(* Neutral (no higher candle at or before the bar, or equal EMAs on the    *)
(* latest one) no signal is counted, no position is opened and there is no *)
(* Trend Change exit: either position, ledger and capital stay as they     *)
(* are, or the open position is closed by Stop Loss or Take Profit.  So no *)
(* position exists on a bar before the first higher candle's timestamp.    *)
(***************************************************************************)
C28_NeutralTrend ==
    /\ [][NumericBarStep /\ AsOfTrend(NewRow.ts) = "Neutral" =>
            /\ signal_counts' = signal_counts
            /\ UNCHANGED <<entry_price, stop_loss, take_profit>>
            /\ \/ UNCHANGED <<position, trades, capital>>
               \/ /\ position # "None"
                  /\ position' = "None"
                  /\ Len(trades') = Len(trades) + 1
                  /\ trades'[Len(trades')].Reason \in {"Stop Loss", "Take Profit"}
         ]_vars
    /\ [](position # "None" => higher_tf_data[1].ts <= CurRow.ts)

\* A Long met a bar whose latest higher candle has equal EMAs and left it at
\* its target, not on a trend change.
C28_Witness ==
    /\ rule = "LongStopTake"
    /\ AsOfTrend(CurRow.ts) = "Neutral"
    /\ Len(higher_tf_data) = 2
    /\ position = "None"
    /\ LastTrade.Date = CurRow.ts
    /\ LastTrade.Reason = "Take Profit"
    /\ LastTrade.PL > 0

\* Parameter values and prices for the level formulas: risk percentages from
\* 0 (stop at the entry) to 100 (stop at 0), ratios from 0, positive prices.
RiskPercents == {0, 1, 100}
RewardRatios == {0, 2}
Prices == {100, 200}

(***************************************************************************)
(* C27: with risk_percent >= 0, risk_reward_ratio >= 0, lot_size > 0 and   *)
(* positive prices, the levels of a Long satisfy stop_loss <= entry_price  *)
(* <= take_profit and those of a Short take_profit <= entry_price <=       *)
(* stop_loss, in the run as for every parameter value; so every trade with *)
(* reason Stop Loss has P&L <= 0 and every trade with reason Take Profit   *)
(* has P&L >= 0.                                                           *)
(***************************************************************************)
C27_LevelsBracketEntry ==
    /\ \A c \in Prices, rp \in RiskPercents, rr \in RewardRatios :
          /\ LongStopLossAt(c, rp) <= c
          /\ c <= LongTakeProfitAt(c, LongStopLossAt(c, rp), rr)
          /\ ShortTakeProfitAt(c, ShortStopLossAt(c, rp), rr) <= c
          /\ c <= ShortStopLossAt(c, rp)
    /\ position = "Long" => stop_loss <= entry_price /\ entry_price <= take_profit
    /\ position = "Short" => take_profit <= entry_price /\ entry_price <= stop_loss
    /\ \A n \in 1..Len(trades) :
          /\ trades[n].Reason = "Stop Loss" => trades[n].PL <= 0
          /\ trades[n].Reason = "Take Profit" => trades[n].PL >= 0

\* A Short of lot 2 opened at 200, with levels 202 and 196 strictly around its
\* entry, left at its target with a gain.
C27_Witness ==
    /\ lot_size = 2
    /\ rule = "ShortStopTake"
    /\ entry_price = 200
    /\ stop_loss = 202
    /\ take_profit = 196
    /\ LastTrade.Reason = "Take Profit"
    /\ LastTrade.Exit = 196
    /\ LastTrade.PL = 8

MissingColumn == ~(RequiredColumns \subseteq csv_columns)

(***************************************************************************)
(* C21: when the CSV lacks a required column (open, high, low, close,      *)
(* volume) the run stops before any simulation: the loader gives no        *)
(* series, backtest_strategy is never entered, and                         *)
(* run_multi_timeframe_backtest returns with no trades, no equity curve    *)
(* and no report.                                                          *)
(***************************************************************************)
C21_MissingColumnAborts ==
    /\ [](MissingColumn =>
            /\ pc \in {"start", "load", "exit_none", "ImportError"}
            /\ i = 0
            /\ dates = <<>>
            /\ trades = <<>>
            /\ trades_df = <<>>
            /\ trades_df_columns = {}
            /\ equity_curve.points = <<>>
            /\ metrics = <<>>)
    /\ [][pc = "load" /\ MissingColumn => pc' = "exit_none"]_vars

\* The CSV has rows for both series but no volume column, and the run has
\* returned its four Nones.
C21_Witness ==
    /\ pc = "exit_none"
    /\ "volume" \notin csv_columns
    /\ lower_tf_data # <<>>
    /\ higher_tf_data # <<>>
    /\ i = 0

(***************************************************************************)
(* C25: the report leaves the records the engine returned as they are:     *)
(* after generate_detailed_report the trade ledger and the equity curve    *)
(* are exactly what backtest_strategy produced, with no field rewritten    *)
(* and none added.  Violated: the report adds the columns Win and Duration *)
(* to the ledger and drawdown and drawdown_pct to the equity curve.        *)
(***************************************************************************)
C25_ReportLeavesRecords ==
    [][pc = "done" /\ pc' = "returned" =>
          /\ trades_df' = trades_df
          /\ trades_df_columns' = trades_df_columns
          /\ equity_curve' = equity_curve]_vars

====
